---- MODULE Spec2Model ----
(***************************************************************************)
(* Model of task_tracker.py: a menu-driven task list kept in memory as a   *)
(* Python list of dicts and stored as JSON in tasks.json.                  *)
(*                                                                         *)
(* Text is a sequence of characters (one-character strings).  Python       *)
(* values and JSON documents are tagged pairs <<tag, payload>>:            *)
(*   Python: <<"NoneType","None">>  <<"bool",b>>  <<"int",n>>              *)
(*           <<"str",chars>>  <<"list",seq>>  <<"dict",record>>            *)
(*   JSON:   <<"null","null">>  <<"true","true">>  <<"false","false">>     *)
(*           <<"number",digits>>  <<"string",escaped chars>>               *)
(*           <<"array",seq>>  <<"object",record>>                          *)
(***************************************************************************)
EXTENDS Integers, Sequences, FiniteSets, TLC

VARIABLES
    pc,        \* position of the process: "Start", "Running", "Exited", "Crashed"
    tasks,     \* the list `tasks` of main()
    file,      \* the backing file DATA_FILE
    out,       \* what the last handler printed, a traceback included
    last,      \* history: the last handler that ran, with the input it accepted
    created,   \* history: every id a task has carried during this run
    onlyAdds   \* history: nothing but add_task changed the collection since it was last empty

vars == <<pc, tasks, file, out, last, created, onlyAdds>>

\* ------------------------------------------------------------ bounds
MaxTasks == 2
MaxId == 2
MaxLines == 2

\* ------------------------------------------------------------ text
Digits == <<"0", "1", "2", "3", "4", "5", "6", "7", "8", "9">>

DigitSet == {Digits[k] : k \in 1..10}

\* a character outside ASCII, written by its code point
NonAscii == "U+00B2"

DigitValue(c) == (CHOOSE k \in 1..10 : Digits[k] = c) - 1

RECURSIVE int(_)
int(raw) ==
    IF Len(raw) = 0 THEN 0
    ELSE 10 * int(SubSeq(raw, 1, Len(raw) - 1)) + DigitValue(raw[Len(raw)])

RECURSIVE str(_)
str(n) ==
    IF n < 10 THEN <<Digits[n + 1]>>
    ELSE str(n \div 10) \o <<Digits[(n % 10) + 1]>>

RECURSIVE lstrip(_)
lstrip(s) == IF Len(s) > 0 /\ s[1] = " " THEN lstrip(Tail(s)) ELSE s

RECURSIVE rstrip(_)
rstrip(s) ==
    IF Len(s) > 0 /\ s[Len(s)] = " " THEN rstrip(SubSeq(s, 1, Len(s) - 1)) ELSE s

strip(s) == rstrip(lstrip(s))

\* ------------------------------------------------------------ Python values
None == <<"NoneType", "None">>
PyBool(b) == <<"bool", b>>
PyInt(n) == <<"int", n>>
PyStr(s) == <<"str", s>>
PyList(seq) == <<"list", seq>>
PyDict(rec) == <<"dict", rec>>

len(v) == Len(v[2])
Item(v, k) == v[2][k]

\* ------------------------------------------------------------ JSON
JNull == <<"null", "null">>
JTrue == <<"true", "true">>
JFalse == <<"false", "false">>

\* as encode_basestring_ascii, but a backslash is written as it is
RECURSIVE encode_backslash_unescaped(_)
encode_backslash_unescaped(s) ==
    IF Len(s) = 0 THEN <<>>
    ELSE LET c == s[1]
             e == IF c = "\"" THEN <<"\\", "\"">>
                  ELSE IF c = NonAscii THEN <<"\\", "u", "0", "0", "b", "2">>
                  ELSE <<c>>
         IN e \o encode_backslash_unescaped(Tail(s))

RECURSIVE encode_basestring_ascii(_)
encode_basestring_ascii(s) ==
    IF Len(s) = 0 THEN <<>>
    ELSE LET c == s[1]
             e == IF c = "\"" THEN <<"\\", "\"">>
                  ELSE IF c = "\\" THEN <<"\\", "\\">>
                  ELSE IF c = NonAscii THEN <<"\\", "u", "0", "0", "b", "2">>
                  ELSE <<c>>
         IN e \o encode_basestring_ascii(Tail(s))

RECURSIVE scanstring(_)
scanstring(s) ==
    IF Len(s) = 0 THEN <<>>
    ELSE IF s[1] # "\\" THEN <<s[1]>> \o scanstring(Tail(s))
    ELSE IF Len(s) >= 6 /\ s[2] = "u"
         THEN <<NonAscii>> \o scanstring(SubSeq(s, 7, Len(s)))
    ELSE <<s[2]>> \o scanstring(SubSeq(s, 3, Len(s)))

RECURSIVE json_dump(_)
json_dump(v) ==
    CASE v[1] = "NoneType" -> JNull
      [] v[1] = "bool" -> IF v[2] THEN JTrue ELSE JFalse
      [] v[1] = "int" -> <<"number", str(v[2])>>
      [] v[1] = "str" -> <<"string", encode_basestring_ascii(v[2])>>
      [] v[1] = "list" -> <<"array", [k \in 1..Len(v[2]) |-> json_dump(v[2][k])]>>
      [] v[1] = "dict" -> <<"object", [k \in DOMAIN v[2] |-> json_dump(v[2][k])]>>

RECURSIVE json_load(_)
json_load(d) ==
    CASE d[1] = "null" -> None
      [] d[1] = "true" -> PyBool(TRUE)
      [] d[1] = "false" -> PyBool(FALSE)
      [] d[1] = "number" -> PyInt(int(d[2]))
      [] d[1] = "string" -> PyStr(scanstring(d[2]))
      [] d[1] = "array" -> PyList([k \in 1..Len(d[2]) |-> json_load(d[2][k])])
      [] d[1] = "object" -> PyDict([k \in DOMAIN d[2] |-> json_load(d[2][k])])

\* ------------------------------------------------------------ the backing file
\* kind: "absent"     no such file
\*       "json"       the text is the JSON document doc
\*       "invalid"    text that is not a JSON document (empty or cut short)
\*       "not_utf8"   bytes that are not UTF-8 text
\*       "unreadable" the path exists but cannot be opened for reading
Absent == [kind |-> "absent", doc |-> JNull]
Invalid == [kind |-> "invalid", doc |-> JNull]
NotUtf8 == [kind |-> "not_utf8", doc |-> JNull]
Unreadable == [kind |-> "unreadable", doc |-> JNull]
JsonFile(d) == [kind |-> "json", doc |-> d]

Returned(v) == [raised |-> "", value |-> v]
Raised(e) == [raised |-> e, value |-> None]

load_tasks(f) ==
    IF f.kind = "absent" THEN Returned(PyList(<<>>))
    ELSE IF f.kind \in {"invalid", "unreadable"} THEN Returned(PyList(<<>>))
    ELSE IF f.kind = "not_utf8" THEN Raised("UnicodeDecodeError")
    ELSE Returned(json_load(f.doc))

\* as save_tasks, but returning without having written
save_tasks_unwritten(t, f) ==
    [ok |-> {f}, failed |-> {f, Invalid}]

\* the contents the file can have once save_tasks(t) has returned or raised
save_tasks(t, f) ==
    [ok |-> {JsonFile(json_dump(t))}, failed |-> {f, Invalid}]

RECURSIVE max(_)
max(S) == LET x == CHOOSE y \in S : TRUE
          IN IF Cardinality(S) = 1 THEN x
             ELSE LET m == max(S \ {x}) IN IF x > m THEN x ELSE m

\* as next_task_id, but counting the tasks instead of taking the largest id
next_task_id_by_count(t) == len(t) + 1

\* as next_task_id, but starting at 0 on an empty list
next_task_id_from_zero(t) ==
    IF len(t) = 0 THEN 0
    ELSE max({Item(Item(t, k), "id")[2] : k \in 1..len(t)}) + 1

next_task_id(t) ==
    IF len(t) = 0 THEN 1
    ELSE max({Item(Item(t, k), "id")[2] : k \in 1..len(t)}) + 1

\* ------------------------------------------------------------ input helpers
\* A helper is given the lines the user types at its prompt, in order.  It
\* returns "ok" with the value and the lines left over, "blocked" when every
\* line was rejected and it is still prompting, or the name of the exception
\* that left it.
Read(s, v, r) == [status |-> s, value |-> v, rest |-> r]

isdigit(s) == Len(s) > 0 /\ \A k \in 1..Len(s) : s[k] \in DigitSet \cup {NonAscii}

RECURSIVE read_int(_, _, _)
read_int(lines, min_value, max_value) ==
    IF Len(lines) = 0 THEN Read("blocked", 0, <<>>)
    ELSE LET raw == strip(lines[1]) IN
         IF ~isdigit(raw) THEN read_int(Tail(lines), min_value, max_value)
         ELSE IF \E k \in 1..Len(raw) : raw[k] = NonAscii
              THEN Read("ValueError", 0, Tail(lines))
         ELSE IF min_value <= int(raw) /\ int(raw) <= max_value
              THEN Read("ok", int(raw), Tail(lines))
         ELSE read_int(Tail(lines), min_value, max_value)

RECURSIVE read_non_empty(_)
read_non_empty(lines) ==
    IF Len(lines) = 0 THEN Read("blocked", <<>>, <<>>)
    ELSE LET text == strip(lines[1]) IN
         IF Len(text) > 0 THEN Read("ok", text, Tail(lines))
         ELSE read_non_empty(Tail(lines))

AllDigits(s) == \A k \in 1..Len(s) : s[k] \in DigitSet

IsLeap(y) == (y % 4 = 0 /\ y % 100 # 0) \/ y % 400 = 0

DaysInMonth(y, m) ==
    IF m = 2 THEN (IF IsLeap(y) THEN 29 ELSE 28)
    ELSE IF m \in {4, 6, 9, 11} THEN 30 ELSE 31

\* the position of the "-" that ends the month field, 0 if there is none
MonthEnd(raw) ==
    IF Len(raw) >= 7 /\ raw[7] = "-" THEN 7
    ELSE IF Len(raw) >= 8 /\ raw[8] = "-" THEN 8
    ELSE 0

\* datetime.strptime(raw, "%Y-%m-%d"): <<year, month, day>>, or <<>> for ValueError
strptime(raw) ==
    LET p == MonthEnd(raw)
        ys == SubSeq(raw, 1, 4)
        ms == SubSeq(raw, 6, p - 1)
        ds == SubSeq(raw, p + 1, Len(raw))
        dd == IF Len(ds) = 2 /\ ds[1] = " " THEN <<ds[2]>> ELSE ds
    IN  IF Len(raw) < 8 \/ p = 0 \/ raw[5] # "-" THEN <<>>
        ELSE IF ~(AllDigits(ys) /\ AllDigits(ms) /\ AllDigits(dd)) THEN <<>>
        ELSE IF ~(Len(ds) \in {1, 2}) THEN <<>>
        ELSE IF int(ys) < 1 \/ ~(int(ms) \in 1..12) \/ int(dd) < 1 THEN <<>>
        ELSE IF int(dd) > DaysInMonth(int(ys), int(ms)) THEN <<>>
        ELSE <<int(ys), int(ms), int(dd)>>

Pad(s, n) == [k \in 1..(n - Len(s)) |-> "0"] \o s

\* %Y of the platform's strftime: four digits, or for a year below 1000 the
\* bare number where the C library does not pad (glibc)
YearTexts(y) == {Pad(str(y), 4), str(y)}

\* dt.strftime("%Y-%m-%d"): the texts the build can produce
strftime(dt) ==
    {y \o <<"-">> \o Pad(str(dt[2]), 2) \o <<"-">> \o Pad(str(dt[3]), 2) :
       y \in YearTexts(dt[1])}

\* the results read_optional_date can leave with
RECURSIVE read_optional_date(_)
read_optional_date(lines) ==
    IF Len(lines) = 0 THEN {Read("blocked", None, <<>>)}
    ELSE LET raw == strip(lines[1]) IN
         IF Len(raw) = 0 THEN {Read("ok", None, Tail(lines))}
         ELSE IF strptime(raw) # <<>>
              THEN {Read("ok", PyStr(text), Tail(lines)) : text \in strftime(strptime(raw))}
         ELSE read_optional_date(Tail(lines))

\* ------------------------------------------------------------ display
truthy(v) == ~(v[1] = "NoneType" \/ (v[1] = "str" /\ Len(v[2]) = 0))

\* as list_tasks, but numbering the lines from 0
list_tasks_from_zero(t) ==
    IF len(t) = 0 THEN << <<"No tasks yet. Add one from the menu!">> >>
    ELSE [index \in 1..len(t) |->
            LET task == Item(t, index) IN
            <<index - 1,
              IF Item(task, "is_complete")[2] THEN "[X]" ELSE "[ ]",
              Item(task, "title")[2],
              IF truthy(Item(task, "due_date")) THEN Item(task, "due_date")[2] ELSE <<>> >>]

\* the lines list_tasks prints below its header
list_tasks(t) ==
    IF len(t) = 0 THEN << <<"No tasks yet. Add one from the menu!">> >>
    ELSE [index \in 1..len(t) |->
            LET task == Item(t, index) IN
            <<index,
              IF Item(task, "is_complete")[2] THEN "[X]" ELSE "[ ]",
              Item(task, "title")[2],
              IF truthy(Item(task, "due_date")) THEN Item(task, "due_date")[2] ELSE <<>> >>]

\* ------------------------------------------------------------ the list operations
\* as add_task, but inserting the new task at the front
add_task_at_front(t, title, due_date) ==
    PyList(<<PyDict([id |-> PyInt(next_task_id(t)),
                     title |-> PyStr(title),
                     due_date |-> due_date,
                     is_complete |-> PyBool(FALSE)])>> \o t[2])

add_task(t, title, due_date) ==
    PyList(Append(t[2],
        PyDict([id |-> PyInt(next_task_id(t)),
                title |-> PyStr(title),
                due_date |-> due_date,
                is_complete |-> PyBool(FALSE)])))

\* as mark_complete, but marking every task from the chosen one on
mark_complete_onward(t, choice) ==
    PyList([k \in 1..len(t) |->
        IF k >= choice
        THEN PyDict([Item(t, k)[2] EXCEPT !["is_complete"] = PyBool(TRUE)])
        ELSE Item(t, k)])

\* as mark_complete, but flipping the flag
mark_complete_toggle(t, choice) ==
    PyList([k \in 1..len(t) |->
        IF k = choice
        THEN PyDict([Item(t, k)[2] EXCEPT
                       !["is_complete"] = PyBool(~Item(t, k)[2]["is_complete"][2])])
        ELSE Item(t, k)])

mark_complete(t, choice) ==
    PyList([k \in 1..len(t) |->
        IF k = choice
        THEN PyDict([Item(t, k)[2] EXCEPT !["is_complete"] = PyBool(TRUE)])
        ELSE Item(t, k)])

pop(seq, i) == SubSeq(seq, 1, i) \o SubSeq(seq, i + 2, Len(seq))

\* as delete_task, but popping the last task
delete_task_last(t, choice) ==
    [tasks |-> PyList(pop(t[2], len(t) - 1)), deleted |-> Item(t, len(t))]

\* as delete_task, but numbering the remaining tasks 1, 2, ... afterwards
delete_task_renumbered(t, choice) ==
    [tasks |-> PyList([k \in 1..(len(t) - 1) |->
                 PyDict([pop(t[2], choice - 1)[k][2] EXCEPT !["id"] = PyInt(k)])]),
     deleted |-> Item(t, choice)]

delete_task(t, choice) ==
    [tasks |-> PyList(pop(t[2], choice - 1)), deleted |-> Item(t, choice)]

\* ------------------------------------------------------------ what the user types
Inputs(L) == UNION {[1..n -> L] : n \in 1..MaxLines}

\* the results a helper can leave with, over the streams it reads to the end
Outcomes(R) == {r \in R : r.status # "blocked" /\ r.rest = <<>>}

MenuLines == {str(k) : k \in 1..7} \cup {<<" ", "0", "3", " ">>, <<"x">>, <<NonAscii>>}

TitleLines == {<<" ">>, <<" ", "a", " ">>, <<NonAscii, "\\", "u", "0", "0", "b", "2", "\"">>}

\* the valid date is of a leap year below 1000, where the platform's %Y matters
DateLines == {<<>>,
              <<"0", "9", "9", "6", "-", "2", "-", "2", "9">>,
              <<"2", "0", "2", "6", "-", "0", "2", "-", "3", "0">>}

IndexLines == {str(k) : k \in 0..(MaxTasks + 1)} \cup {<<"x">>, <<NonAscii>>}

MenuReads == Outcomes({read_int(lines, 1, 6) : lines \in Inputs(MenuLines)})

TitleReads == Outcomes({read_non_empty(lines) : lines \in Inputs(TitleLines)})

DateReads == Outcomes(UNION {read_optional_date(lines) : lines \in Inputs(DateLines)})

IndexReadsOf ==
    [n \in 1..MaxTasks |-> Outcomes({read_int(lines, 1, n) : lines \in Inputs(IndexLines)})]

IndexReads(n) == IndexReadsOf[n]

Chosen(k) == Read("ok", k, <<>>) \in MenuReads

\* ------------------------------------------------------------ the program
\* again: the handler before this one was the same handler with the same input
Ran(op, choice, title, due_date) ==
    [op |-> op, choice |-> choice, title |-> title, due_date |-> due_date,
     again |-> (last.op = op /\ last.choice = choice
                  /\ last.title = title /\ last.due_date = due_date)]

\* a Python value that is a list of task records
IsTask(v) ==
    /\ v[1] = "dict"
    /\ DOMAIN v[2] = {"id", "title", "due_date", "is_complete"}
    /\ v[2]["id"][1] = "int"
    /\ v[2]["title"][1] = "str"
    /\ v[2]["due_date"][1] \in {"NoneType", "str"}
    /\ v[2]["is_complete"][1] = "bool"

IsTaskList(v) == v[1] = "list" /\ \A k \in 1..len(v) : IsTask(v[2][k])

Init ==
    /\ pc = "Start"
    /\ tasks = None
    /\ file = Absent
    /\ out = <<>>
    /\ last = [op |-> "none", choice |-> 0, title |-> <<>>, due_date |-> None,
               again |-> FALSE]
    /\ created = {}
    /\ onlyAdds = FALSE

\* what the interpreter prints when the exception e leaves main()
Traceback(e) == << <<"Traceback", e>> >>

\* a run of the program begins: tasks = load_tasks()
Main ==
    /\ pc \in {"Start", "Exited", "Crashed"}
    /\ LET r == load_tasks(file) IN
         IF r.raised = ""
         THEN /\ tasks' = r.value
              /\ pc' = "Running"
              /\ onlyAdds' = (r.value[1] = "list" /\ len(r.value) = 0)
              /\ created' = IF IsTaskList(r.value)
                            THEN {Item(Item(r.value, k), "id")[2] : k \in 1..len(r.value)}
                            ELSE {}
         ELSE /\ tasks' = None
              /\ pc' = "Crashed"
              /\ onlyAdds' = FALSE
              /\ created' = {}
    /\ out' = IF load_tasks(file).raised = "" THEN <<>>
              ELSE Traceback(load_tasks(file).raised)
    /\ last' = Ran("load", 0, <<>>, None)
    /\ UNCHANGED file

\* as Persist, but with the exception of save_tasks caught and passed over
Persist_swallowed(t, printed, said, then) ==
    \/ /\ file' \in save_tasks(t, file).ok
       /\ out' = printed \o said
       /\ pc' = then
    \/ /\ file' \in save_tasks(t, file).failed
       /\ out' = printed \o said
       /\ pc' = then

\* save_tasks(t) as the last step of a handler: it returns and the handler
\* prints said, or it raises and the process ends
Persist(t, printed, said, then) ==
    \/ /\ file' \in save_tasks(t, file).ok
       /\ out' = printed \o said
       /\ pc' = then
    \/ /\ file' \in save_tasks(t, file).failed
       /\ out' = printed \o Traceback("OSError")
       /\ pc' = "Crashed"

\* the menu prompt is left by an exception
MenuError ==
    /\ pc = "Running"
    /\ Read("ValueError", 0, <<>>) \in MenuReads
    /\ pc' = "Crashed"
    /\ out' = Traceback("ValueError")
    /\ last' = Ran("menu", 0, <<>>, None)
    /\ UNCHANGED <<tasks, file, created, onlyAdds>>

ListTasks ==
    /\ pc = "Running"
    /\ Chosen(1)
    /\ out' = list_tasks(tasks)
    /\ last' = Ran("list", 0, <<>>, None)
    /\ UNCHANGED <<pc, tasks, file, created, onlyAdds>>

AddTask ==
    /\ pc = "Running"
    /\ Chosen(2)
    /\ len(tasks) < MaxTasks
    /\ next_task_id(tasks) <= MaxId
    /\ \E title \in TitleReads, due_date \in DateReads :
         /\ tasks' = add_task(tasks, title.value, due_date.value)
         /\ last' = Ran("add", 0, title.value, due_date.value)
         /\ Persist(tasks', <<>>, << <<"Task added and saved!">> >>, "Running")
    /\ created' = created \cup {next_task_id(tasks)}
    /\ UNCHANGED onlyAdds

\* as MarkComplete, but saving also when there is no task
MarkComplete_saving_when_empty ==
    /\ pc = "Running"
    /\ Chosen(3)
    /\ IF len(tasks) = 0
       THEN /\ last' = Ran("complete", 0, <<>>, None)
            /\ Persist(tasks, <<>>, << <<"No tasks to mark complete.">> >>, "Running")
            /\ UNCHANGED <<tasks, onlyAdds>>
       ELSE \E choice \in IndexReads(len(tasks)) :
              /\ last' = Ran("complete", choice.value, <<>>, None)
              /\ IF choice.status = "ok"
                 THEN /\ tasks' = mark_complete(tasks, choice.value)
                      /\ Persist(tasks', list_tasks(tasks),
                                 << <<"Task marked complete and saved!">> >>, "Running")
                      /\ onlyAdds' = FALSE
                 ELSE /\ pc' = "Crashed"
                      /\ out' = list_tasks(tasks) \o Traceback(choice.status)
                      /\ UNCHANGED <<tasks, file, onlyAdds>>
    /\ UNCHANGED created

MarkComplete ==
    /\ pc = "Running"
    /\ Chosen(3)
    /\ IF len(tasks) = 0
       THEN /\ out' = << <<"No tasks to mark complete.">> >>
            /\ last' = Ran("complete", 0, <<>>, None)
            /\ UNCHANGED <<pc, tasks, file, onlyAdds>>
       ELSE \E choice \in IndexReads(len(tasks)) :
              /\ last' = Ran("complete", choice.value, <<>>, None)
              /\ IF choice.status = "ok"
                 THEN /\ tasks' = mark_complete(tasks, choice.value)
                      /\ Persist(tasks', list_tasks(tasks),
                                 << <<"Task marked complete and saved!">> >>, "Running")
                      /\ onlyAdds' = FALSE
                 ELSE /\ pc' = "Crashed"
                      /\ out' = list_tasks(tasks) \o Traceback(choice.status)
                      /\ UNCHANGED <<tasks, file, onlyAdds>>
    /\ UNCHANGED created

DeleteTask ==
    /\ pc = "Running"
    /\ Chosen(4)
    /\ IF len(tasks) = 0
       THEN /\ out' = << <<"No tasks to delete.">> >>
            /\ last' = Ran("delete", 0, <<>>, None)
            /\ UNCHANGED <<pc, tasks, file, onlyAdds>>
       ELSE \E choice \in IndexReads(len(tasks)) :
              /\ last' = Ran("delete", choice.value, <<>>, None)
              /\ IF choice.status = "ok"
                 THEN LET r == delete_task(tasks, choice.value) IN
                      /\ tasks' = r.tasks
                      /\ Persist(tasks', list_tasks(tasks),
                                 << <<"Deleted: ", Item(r.deleted, "title")[2]>> >>, "Running")
                      /\ onlyAdds' = (len(r.tasks) = 0)
                 ELSE /\ pc' = "Crashed"
                      /\ out' = list_tasks(tasks) \o Traceback(choice.status)
                      /\ UNCHANGED <<tasks, file, onlyAdds>>
    /\ UNCHANGED created

Save ==
    /\ pc = "Running"
    /\ Chosen(5)
    /\ Persist(tasks, <<>>, << <<"Saved!">> >>, "Running")
    /\ last' = Ran("save", 0, <<>>, None)
    /\ UNCHANGED <<tasks, created, onlyAdds>>

\* as Exit, but leaving without the save
Exit_unsaved ==
    /\ pc = "Running"
    /\ Chosen(6)
    /\ pc' = "Exited"
    /\ out' = << <<"Goodbye!">> >>
    /\ last' = Ran("exit", 0, <<>>, None)
    /\ UNCHANGED <<tasks, file, created, onlyAdds>>

Exit ==
    /\ pc = "Running"
    /\ Chosen(6)
    /\ Persist(tasks, <<>>, << <<"Goodbye!">> >>, "Exited")
    /\ last' = Ran("exit", 0, <<>>, None)
    /\ UNCHANGED <<tasks, created, onlyAdds>>

Next ==
    \/ Main
    \/ MenuError
    \/ ListTasks
    \/ AddTask
    \/ MarkComplete
    \/ DeleteTask
    \/ Save
    \/ Exit

Spec == Init /\ [][Next]_vars

\* ------------------------------------------------------------ properties
IsList == IsTaskList(tasks)

Field(t, k, name) == Item(Item(t, k), name)

Id(t, k) == Field(t, k, "id")[2]

TrickyTitle == PyStr(<<NonAscii, "\\", "u", "0", "0", "b", "2", "\"">>)

\* C1: in every reachable state the ids of the tasks in the collection are
\* pairwise distinct.
C1_IdsDistinct ==
    IsList => \A i, j \in 1..len(tasks) : i # j => Id(tasks, i) # Id(tasks, j)

C1_Witness ==
    /\ pc = "Running"
    /\ last.op = "load"
    /\ len(tasks) >= 2
    /\ file.kind = "json"

\* C2: the id given to a newly added task differs from the id of every task
\* created before it, deleted ones included.
C2_IdNeverReused ==
    [][(pc = "Running" /\ last'.op = "add")
        => Id(tasks', len(tasks')) \notin created]_vars

\* C3: when the main loop is back at the menu after an add, complete or delete
\* that changed the collection, the backing file holds the in-memory collection.
C3_FileFollowsMemory ==
    (/\ pc = "Running"
     /\ last.op \in {"add", "complete", "delete"}
     /\ (last.op = "add" \/ last.choice >= 1))
    => /\ file.kind = "json"
       /\ load_tasks(file) = Returned(tasks)

C3_Witness ==
    /\ pc = "Running"
    /\ last.op = "delete"
    /\ last.choice >= 1
    /\ len(tasks) >= 1
    /\ file.kind = "json"

\* C4: loading what save wrote gives back the collection, and a run that
\* follows an Exit starts with the collection the exited run ended with.
C4_RoundTrip ==
    /\ [](IsList => \A f \in save_tasks(tasks, file).ok : load_tasks(f) = Returned(tasks))
    /\ [][(pc = "Exited" /\ pc' = "Running") => tasks' = tasks]_vars

C4_Witness ==
    /\ pc = "Running"
    /\ last.op = "load"
    /\ len(tasks) >= 2
    /\ \E k \in 1..len(tasks) : Field(tasks, k, "title") = TrickyTitle
    /\ \E k \in 1..len(tasks) : Field(tasks, k, "due_date") = None
    /\ \E k \in 1..len(tasks) : Field(tasks, k, "due_date")[1] = "str"
    /\ \E k \in 1..len(tasks) : Field(tasks, k, "is_complete") = PyBool(TRUE)

\* ------------------------------------------------------------ load_tasks alone
\* the contents tasks.json can have when the program starts
Scalars == {JNull, JTrue, JFalse, <<"number", <<"0">>>>, <<"number", <<"4", "2">>>>,
            <<"string", <<>>>>, <<"string", <<"a">>>>}

TaskObject(n, done) ==
    <<"object", [id |-> <<"number", str(n)>>,
                 title |-> <<"string", <<"a">>>>,
                 due_date |-> JNull,
                 is_complete |-> IF done THEN JTrue ELSE JFalse]>>

Objects == {<<"object", [a |-> <<"number", <<"1">>>>]>>,
            <<"object", [id |-> <<"number", <<"1">>>>]>>,
            <<"object", [tasks |-> <<"array", <<TaskObject(1, FALSE)>>>>]>>,
            TaskObject(1, FALSE), TaskObject(2, TRUE)}

Documents ==
    Scalars \cup Objects
    \cup {<<"array", a>> : a \in UNION {[1..n -> Scalars] : n \in 0..2}}
    \cup {<<"array", a>> : a \in UNION {[1..n -> Objects] : n \in 1..2}}

Files == {Absent, Invalid, NotUtf8, Unreadable} \cup {JsonFile(d) : d \in Documents}

\* the JSON documents that are a sequence of task records
IsRecordCollection(f) == f.kind = "json" /\ IsTaskList(json_load(f.doc))

InitLoad ==
    /\ pc = "Start"
    /\ tasks = None
    /\ file \in Files
    /\ out = <<>>
    /\ last = [op |-> "none", choice |-> 0, title |-> <<>>, due_date |-> None,
               again |-> FALSE]
    /\ created = {}
    /\ onlyAdds = FALSE

SpecLoad == InitLoad /\ [][Main]_vars

\* C5: load returns an empty collection and raises nothing when the file is
\* absent and when its content is not a valid record collection.
C5_LoadRecoversEmpty ==
    (last.op = "load" /\ ~IsRecordCollection(file))
    => (pc = "Running" /\ tasks = PyList(<<>>))

\* ------------------------------------------------------------ the list operations, step by step
\* the step is delete_task removing the task at display index i
DeleteStep(i) == pc = "Running" /\ last'.op = "delete" /\ last'.choice = i

\* the step is mark_complete marking the task at display index i
CompleteStep(i) == pc = "Running" /\ last'.op = "complete" /\ last'.choice = i

\* the step is add_task
AddStep == pc = "Running" /\ last'.op = "add"

\* C6: delete(i) removes exactly the task at position i: the tasks below i stay,
\* the tasks above i move down by one, every remaining task keeps its fields,
\* and the title reported is the removed task's.
C6_DeleteRemovesExactlyOne ==
    [][\A i \in 1..MaxTasks : DeleteStep(i) =>
         /\ i <= len(tasks)
         /\ len(tasks') = len(tasks) - 1
         /\ \A k \in 1..(i - 1) : Item(tasks', k) = Item(tasks, k)
         /\ \A k \in i..len(tasks') : Item(tasks', k) = Item(tasks, k + 1)
         /\ pc' = "Running" =>
              out'[Len(out')] = <<"Deleted: ", Field(tasks, i, "title")[2]>>]_vars

C6_Witness ==
    /\ pc = "Running"
    /\ last.op = "delete"
    /\ last.choice = 1
    /\ len(tasks) >= 1
    /\ Len(out) = len(tasks) + 2

\* C7: k adds applied to an empty collection, with nothing else in between, give
\* the j-th added task the id j.
C7_AddsCountFromOne ==
    (IsList /\ onlyAdds) => \A j \in 1..len(tasks) : Id(tasks, j) = j

C7_Witness ==
    /\ pc = "Running"
    /\ onlyAdds
    /\ last.op = "add"
    /\ len(tasks) >= 2

\* C8: add appends exactly one task at the end, with the given title, the given
\* due date (or none) and is_complete false, and leaves the other tasks as they were.
C8_AddAppendsOne ==
    [][AddStep =>
         /\ len(tasks') = len(tasks) + 1
         /\ \A k \in 1..len(tasks) : Item(tasks', k) = Item(tasks, k)
         /\ IsTask(Item(tasks', len(tasks')))
         /\ Field(tasks', len(tasks'), "title") = PyStr(last'.title)
         /\ Field(tasks', len(tasks'), "due_date") = last'.due_date
         /\ Field(tasks', len(tasks'), "is_complete") = PyBool(FALSE)]_vars

C8_Witness ==
    /\ pc = "Running"
    /\ last.op = "add"
    /\ len(tasks) >= 2
    /\ last.due_date = None
    /\ Field(tasks, 1, "is_complete") = PyBool(TRUE)

\* C9: complete(i) changes nothing but the is_complete flag of the task at
\* position i, which becomes true.
C9_CompleteSetsOneFlag ==
    [][\A i \in 1..MaxTasks : CompleteStep(i) =>
         /\ i <= len(tasks)
         /\ len(tasks') = len(tasks)
         /\ \A k \in 1..len(tasks) : k # i => Item(tasks', k) = Item(tasks, k)
         /\ IsTask(Item(tasks', i))
         /\ Field(tasks', i, "id") = Field(tasks, i, "id")
         /\ Field(tasks', i, "title") = Field(tasks, i, "title")
         /\ Field(tasks', i, "due_date") = Field(tasks, i, "due_date")
         /\ Field(tasks', i, "is_complete") = PyBool(TRUE)]_vars

C9_Witness ==
    /\ pc = "Running"
    /\ last.op = "complete"
    /\ last.choice >= 1
    /\ Field(tasks, last.choice, "is_complete") = PyBool(TRUE)
    /\ \E k \in 1..len(tasks) : Field(tasks, k, "is_complete") = PyBool(FALSE)

\* C10: complete(i) applied twice in a row leaves the collection and the
\* backing file as the first application left them.
C10_CompleteIdempotent ==
    [][(/\ pc = "Running"
        /\ last.op = "complete"
        /\ last.choice >= 1
        /\ CompleteStep(last.choice)
        /\ pc' = "Running")
       => (tasks' = tasks /\ file' = file)]_vars

C10_Witness ==
    /\ pc = "Running"
    /\ last.op = "complete"
    /\ last.choice >= 1
    /\ last.again
    /\ file.kind = "json"

\* ------------------------------------------------------------ what a run keeps
\* the positions of the tasks of t that carry the id n
Where(t, n) == {k \in 1..len(t) : Id(t, k) = n}

\* C11: once a task's is_complete flag is true it stays true in every later
\* state of the run, for as long as the task is in the collection.
C11_CompletionMonotone ==
    [][(pc = "Running" /\ pc' # "Start" /\ last'.op # "load") =>
         \A k \in 1..len(tasks) :
           Field(tasks, k, "is_complete") = PyBool(TRUE) =>
             \A j \in Where(tasks', Id(tasks, k)) :
               Field(tasks', j, "is_complete") = PyBool(TRUE)]_vars

C11_Witness ==
    /\ pc = "Running"
    /\ last.op = "delete"
    /\ last.choice >= 1
    /\ len(tasks) >= 1
    /\ Field(tasks, 1, "is_complete") = PyBool(TRUE)

\* the id, title and due date of each task of t, in order
Identity(t) ==
    [k \in 1..len(t) |->
       <<Field(t, k, "id"), Field(t, k, "title"), Field(t, k, "due_date")>>]

\* C12: no step of a run changes the id, title or due date of a task: the tasks
\* that stay keep them, in order; a step only drops one task or appends one.
C12_IdentityKept ==
    [][(pc = "Running" /\ last'.op # "load") =>
         \/ Identity(tasks') = Identity(tasks)
         \/ /\ last'.op = "delete"
            /\ \E i \in 1..len(tasks) : Identity(tasks') = pop(Identity(tasks), i - 1)
         \/ /\ last'.op = "add"
            /\ len(tasks') = len(tasks) + 1
            /\ SubSeq(Identity(tasks'), 1, len(tasks)) = Identity(tasks)]_vars

C12_Witness ==
    /\ pc = "Running"
    /\ last.op = "complete"
    /\ last.choice >= 1
    /\ len(tasks) >= 2
    /\ Field(tasks, 1, "title") # Field(tasks, 2, "title")

\* ------------------------------------------------------------ the dispatcher
\* the handlers of the selections 1 to 5
OneToFive == {"list", "add", "complete", "delete", "save"}

\* the step enters Exited from selection 6 with the collection written
EntersExited ==
    pc' = "Exited" =>
      /\ pc = "Running"
      /\ last'.op = "exit"
      /\ file'.kind = "json"
      /\ load_tasks(file') = Returned(tasks')

\* C13 as stated: the dispatcher starts in Running, stays in Running after each
\* of the selections 1 to 5, enters Exited only on selection 6 with the file
\* written, and takes no action after Exited.
C13_Dispatcher ==
    /\ [](last.op = "load" => pc = "Running")
    /\ [][(pc = "Running" /\ last'.op \in OneToFive) => pc' = "Running"]_vars
    /\ [][EntersExited]_vars
    /\ [][pc = "Exited" => last'.op = "load"]_vars

\* C13 as amended: after a selection 1 to 5 the dispatcher is Running again
\* unless an exception left the handler, which ends the process with a
\* traceback and without reaching Exited; the rest as stated.
C13_DispatcherOrTraceback ==
    /\ [](last.op = "load" => pc = "Running")
    /\ [][(pc = "Running" /\ last'.op \in OneToFive) =>
            \/ pc' = "Running"
            \/ pc' = "Crashed" /\ out'[Len(out')][1] = "Traceback"]_vars
    /\ [][EntersExited]_vars
    /\ [][pc = "Exited" => last'.op = "load"]_vars

C13_Witness ==
    /\ pc = "Exited"
    /\ last.op = "exit"
    /\ len(tasks) >= 1
    /\ file.kind = "json"

\* ------------------------------------------------------------ the input helpers
\* the line, stripped, is a decimal literal of a value in min_value..max_value
Accepted(line, min_value, max_value) ==
    /\ Len(strip(line)) > 0
    /\ AllDigits(strip(line))
    /\ int(strip(line)) \in min_value..max_value

\* C14: read_int never fails and never returns a value outside [min, max]: the
\* lines before the one it returns are all rejected, and the value is that of
\* the first line that is an integer literal within the bounds.
C14_ReadIntTotal ==
    /\ pc = "Crashed" => out[Len(out)] # <<"Traceback", "ValueError">>
    /\ \A lines \in Inputs(MenuLines) :
         LET r == read_int(lines, 1, 6) IN
         r.status = "ok" =>
           /\ r.value \in 1..6
           /\ \E k \in 1..Len(lines) :
                /\ Accepted(lines[k], 1, 6)
                /\ r.value = int(strip(lines[k]))
                /\ r.rest = SubSeq(lines, k + 1, Len(lines))
                /\ \A j \in 1..(k - 1) : ~Accepted(lines[j], 1, 6)

\* the text is a calendar date written YYYY-MM-DD
IsDateText(d) ==
    /\ Len(d) = 10
    /\ d[5] = "-" /\ d[8] = "-"
    /\ \A k \in {1, 2, 3, 4, 6, 7, 9, 10} : d[k] \in DigitSet
    /\ strptime(d) # <<>>

\* C15: every task created by add has a title that is non-empty and trimmed,
\* and a due_date that is absent or a valid calendar date in YYYY-MM-DD form.
C15_TasksWellFormed ==
    IsList => \A k \in 1..len(tasks) :
      /\ Len(Field(tasks, k, "title")[2]) > 0
      /\ strip(Field(tasks, k, "title")[2]) = Field(tasks, k, "title")[2]
      /\ \/ Field(tasks, k, "due_date") = None
         \/ IsDateText(Field(tasks, k, "due_date")[2])

\* ------------------------------------------------------------ failed writes
\* the handlers that call save_tasks, the early returns on an empty list apart
Saves(l) == l.op \in {"add", "save", "exit"} \/ (l.op \in {"complete", "delete"} /\ l.choice >= 1)

\* the step is a handler whose save_tasks raised
SaveFailed ==
    /\ pc = "Running"
    /\ Saves(last')
    /\ \/ file' \notin save_tasks(tasks', file).ok
       \/ out'[Len(out')] = <<"Traceback", "OSError">>

\* C16: a failure of save_tasks during add, complete, delete, Save or Exit is
\* not swallowed or retried: the process ends there, and takes no further menu
\* action.
C16_WriteFailureFatal ==
    /\ [][SaveFailed => (pc' = "Crashed" /\ file' \in save_tasks(tasks', file).failed)]_vars
    /\ [][pc = "Crashed" => last'.op = "load"]_vars

C16_Witness ==
    /\ pc = "Crashed"
    /\ last.op = "delete"
    /\ last.choice >= 1
    /\ out[Len(out)] = <<"Traceback", "OSError">>
    /\ file = Invalid

\* ------------------------------------------------------------ listing
\* C17: listing changes neither the collection nor the file, and numbers the
\* tasks 1..n in collection order: line i shows the i-th task.
C17_ListReadOnly ==
    [][(pc = "Running" /\ last'.op = "list") =>
         /\ pc' = "Running"
         /\ tasks' = tasks
         /\ file' = file
         /\ len(tasks) = 0 => out' = << <<"No tasks yet. Add one from the menu!">> >>
         /\ len(tasks) > 0 =>
              /\ Len(out') = len(tasks)
              /\ \A i \in 1..len(tasks) :
                   /\ out'[i][1] = i
                   /\ out'[i][2] = (IF Field(tasks, i, "is_complete")[2] THEN "[X]" ELSE "[ ]")
                   /\ out'[i][3] = Field(tasks, i, "title")[2]
                   /\ out'[i][4] = (IF Field(tasks, i, "due_date") = None THEN <<>>
                                    ELSE Field(tasks, i, "due_date")[2])]_vars

C17_Witness ==
    /\ pc = "Running"
    /\ last.op = "list"
    /\ len(tasks) >= 2
    /\ Len(out) = len(tasks)
    /\ Field(tasks, 2, "is_complete") = PyBool(TRUE)

\* C18: on an empty collection Complete and Delete return to the menu with one
\* message, read no display index, leave the collection empty and do not write
\* the file.
C18_EmptyReturnsEarly ==
    [][(pc = "Running" /\ len(tasks) = 0 /\ last'.op \in {"complete", "delete"}) =>
         /\ pc' = "Running"
         /\ tasks' = tasks
         /\ file' = file
         /\ last'.choice = 0
         /\ out' = IF last'.op = "complete"
                   THEN << <<"No tasks to mark complete.">> >>
                   ELSE << <<"No tasks to delete.">> >>]_vars

C18_Witness ==
    /\ pc = "Running"
    /\ last.op \in {"complete", "delete"}
    /\ last.choice = 0
    /\ len(tasks) = 0
    /\ file.kind # "json"

\* C19: the ids are strictly increasing in display order, so the last task
\* carries the largest id.
C19_IdsIncreasing ==
    IsList =>
      /\ \A i, j \in 1..len(tasks) : i < j => Id(tasks, i) < Id(tasks, j)
      /\ len(tasks) > 0 => \A i \in 1..len(tasks) : Id(tasks, i) <= Id(tasks, len(tasks))

C19_Witness ==
    /\ pc = "Running"
    /\ last.op = "delete"
    /\ last.choice = 1
    /\ len(tasks) >= 1
    /\ Id(tasks, 1) > 1

====
